---- MODULE Spec2Model ----
(***************************************************************************)
(* Model of meds-bot: the reminder service (internal/reminder), the SQLite *)
(* acknowledgment store (internal/db) and the Discord button handler       *)
(* (internal/discord).                                                     *)
(*                                                                         *)
(* Time is counted in whole hours since an epoch whose day 0 is a          *)
(* Thursday.  A timezone is its offset in hours.  A date ("2006-01-02")    *)
(* is the day number, a Discord message ID is a positive number and the    *)
(* empty string is NoMessage.  Day names are sequences of ASCII codes so   *)
(* that strings.ToLower is computed and not assumed.                       *)
(***************************************************************************)
EXTENDS Integers, Sequences, FiniteSets, TLC

\* ------------------------------------------------------------------ bounds
\* last hour the clock of the service model reaches
MaxNow == 26
\* number of Discord messages the channel can hold in the model
MaxMsgs == 2
\* number of steps (store calls, waits) of the sequential store client
MaxSteps == 5

\* ------------------------------------------------------------- strings
ToLowerChar(c) == IF c >= 65 /\ c <= 90 THEN c + 32 ELSE c

ToLower(s) == [i \in DOMAIN s |-> ToLowerChar(s[i])]

ToUpper(s) == [i \in DOMAIN s |-> IF s[i] >= 97 /\ s[i] <= 122 THEN s[i] - 32 ELSE s[i]]

\* time.Weekday.String(): index 1 is Sunday (Weekday 0) ... index 7 is Saturday
WeekdayString ==
  << <<83,117,110,100,97,121>>,
     <<77,111,110,100,97,121>>,
     <<84,117,101,115,100,97,121>>,
     <<87,101,100,110,101,115,100,97,121>>,
     <<84,104,117,114,115,100,97,121>>,
     <<70,114,105,100,97,121>>,
     <<83,97,116,117,114,100,97,121>> >>

\* ---------------------------------------------------------------- clock
\* time.Now().In(loc).Hour()
LocalHour(t, off) == (t + off) % 24

\* the calendar day of t in the zone with offset off
LocalDate(t, off) == (t + off) \div 24

\* time.Now().In(loc).Weekday(), 0 = Sunday
Weekday(t, off) == (LocalDate(t, off) + 4) % 7

\* ------------------------------------------------- Due-Window Evaluator
\* the 5 hour policy window of shouldSendReminder
WindowHours == 5

\* faulty variant: the window closes one hour late
InWindowLate(currentHour, hour) == currentHour >= hour /\ currentHour <= hour + WindowHours

\* return currentHour >= medication.Hour && currentHour < medication.Hour+5
InWindow(currentHour, hour) == currentHour >= hour /\ currentHour < hour + WindowHours

\* faulty variant: the configured day is compared as written
DayMatchesExact(day, currentDay) == day = currentDay

\* strings.ToLower(medication.Day) != currentDay
DayMatches(day, currentDay) == ToLower(day) = currentDay

\* Service.shouldSendReminder for a medication at time t, configured zone off
shouldSendReminder(medication, t, off) ==
  LET currentHour == LocalHour(t, off)
      frequency == IF medication.Frequency = "" THEN "daily" ELSE medication.Frequency
      currentDay == ToLower(WeekdayString[Weekday(t, off) + 1])
  IN IF frequency = "weekly" /\ ~DayMatches(medication.Day, currentDay)
       THEN FALSE
       ELSE InWindow(currentHour, medication.Hour)

\* ------------------------------------------------------- configuration
\* Config.Timezone as an offset: "UTC", the default of validateConfig
CfgOff == 0

\* zones the process itself may run in (time.Local): the configured zone, and
\* one two hours behind it, whose midnight falls inside the due window of the
\* first medication
LocOffsets == {0, -2}

Monday == WeekdayString[2]

\* Config.Medications, in configured order
Medications ==
  << [Name |-> "A", Hour |-> 1, Frequency |-> "daily", Day |-> <<>>],
     [Name |-> "B", Hour |-> 2, Frequency |-> "weekly", Day |-> Monday] >>

\* the goroutines that call Service.Stop: main on a signal, and another caller
Callers == {"main", "other"}

MedNames == {Medications[i].Name : i \in DOMAIN Medications}

\* --------------------------------------------------- Acknowledgment Store
\* SQL NULL in the columns last_reminder_time and message_id
NULL == -1

\* the zero time.Time
ZeroTime == -2

\* the empty string as a message ID
NoMessage == 0

NoReminder ==
  [ID |-> 0, Date |-> 0, MedicationType |-> "", Acknowledged |-> FALSE,
   LastReminderTime |-> ZeroTime, MessageID |-> NoMessage]

\* today := time.Now().Format("2006-01-02"), in the zone of the process
Today(t, off) == LocalDate(t, off)

\* WHERE date = ? AND medication_type = ?
Matching(rs, today, name) ==
  {i \in DOMAIN rs : rs[i].date = today /\ rs[i].medication_type = name}

\* QueryRowContext(...).Scan: the first matching row in rowid order
FirstMatch(rs, today, name) ==
  LET m == Matching(rs, today, name)
  IN CHOOSE i \in m : \A j \in m : i <= j

\* the Reminder built from a scanned row
ScanReminder(row, today, name) ==
  [ID |-> row.id, Date |-> today, MedicationType |-> name,
   Acknowledged |-> (row.acknowledged = 1),
   LastReminderTime |-> IF row.last_reminder_time = NULL
                          THEN ZeroTime ELSE row.last_reminder_time,
   MessageID |-> IF row.message_id = NULL THEN NoMessage ELSE row.message_id]

\* id INTEGER PRIMARY KEY: one more than the largest rowid
NextRowId(rs) ==
  IF rs = <<>> THEN 1
  ELSE 1 + (CHOOSE n \in {rs[i].id : i \in DOMAIN rs} :
              \A k \in DOMAIN rs : rs[k].id <= n)

\* faulty variant: the record is inserted twice
InsertReminderTwice(rs, today, name) ==
  LET row(id) == [id |-> id, date |-> today, medication_type |-> name,
                  acknowledged |-> 0, last_reminder_time |-> NULL,
                  message_id |-> NULL]
  IN Append(Append(rs, row(NextRowId(rs))), row(NextRowId(rs) + 1))

\* INSERT INTO reminders (date, medication_type, acknowledged) VALUES (?, ?, 0)
InsertReminder(rs, today, name) ==
  Append(rs, [id |-> NextRowId(rs), date |-> today, medication_type |-> name,
              acknowledged |-> 0, last_reminder_time |-> NULL,
              message_id |-> NULL])

\* the Reminder returned after the insert
NewReminder(id, today, name) ==
  [ID |-> id, Date |-> today, MedicationType |-> name, Acknowledged |-> FALSE,
   LastReminderTime |-> ZeroTime, MessageID |-> NoMessage]

\* now := time.Now().Format(time.RFC3339): the model keeps the timestamp of an
\* update to the day
Timestamp(t, off) == LocalDate(t, off)

\* faulty variant: the update forgets the message_id column
UpdateRowsNoMessage(rs, id, acknowledged, messageID, t) ==
  [i \in DOMAIN rs |->
     IF rs[i].id = id
       THEN [rs[i] EXCEPT !.acknowledged = IF acknowledged THEN 1 ELSE 0,
                          !.last_reminder_time = t]
       ELSE rs[i]]

\* UPDATE reminders SET acknowledged, message_id, last_reminder_time WHERE id = ?
UpdateRows(rs, id, acknowledged, messageID, t) ==
  [i \in DOMAIN rs |->
     IF rs[i].id = id
       THEN [rs[i] EXCEPT !.acknowledged = IF acknowledged THEN 1 ELSE 0,
                          !.message_id = messageID,
                          !.last_reminder_time = t]
       ELSE rs[i]]

\* faulty variant: the row found by the SELECT is not returned, a row is
\* inserted on every call
GetTodayReminderAlwaysInserts(rs, t, off, name) ==
  [rows |-> InsertReminder(rs, Today(t, off), name),
   rem |-> NewReminder(NextRowId(rs), Today(t, off), name)]

\* Store.GetTodayReminder run without interruption: the rows and the Reminder
GetTodayReminder(rs, t, off, name) ==
  LET today == Today(t, off)
  IN IF Matching(rs, today, name) # {}
       THEN [rows |-> rs,
             rem |-> ScanReminder(rs[FirstMatch(rs, today, name)], today, name)]
       ELSE [rows |-> InsertReminder(rs, today, name),
             rem |-> NewReminder(NextRowId(rs), today, name)]

\* whether an operation on a context may succeed: a cancelled context fails it,
\* and a timeout or a storage failure can fail it at any time
StoreOutcomes(cancelled) == IF cancelled THEN {FALSE} ELSE {TRUE, FALSE}

\* ------------------------------------------------------------------ state
VARIABLES
  now,          \* the wall clock, in hours
  locOff,       \* the zone of the process (time.Local)
  rows,         \* the table reminders, in rowid order
  msgs,         \* the channel: message ID -> [name, status]
  registered,   \* the "medication_taken_" handler is in Client.handlers
  spc,          \* position of the reminderLoop goroutine
  sIdx,         \* index of the medication the pass is at
  sToday,       \* today of the pass's GetTodayReminder call
  sRem,         \* reminder of checkAndSendReminders
  sNew,         \* newMessageID of checkAndSendReminders
  sDeleted,     \* the reference whose delete the pass has requested for the medication
  sPassConf,    \* the confirmations completed when the pass began
  tickPending,  \* a tick waits in ticker.C
  stopCh,       \* stopCh is closed
  ctxDone,      \* the context is cancelled
  stopPc,       \* position of each caller of Stop
  once,         \* stopOnce: fresh, running (f is being run) or done
  closes,       \* how many times close(stopCh) has been executed
  hung,         \* the Discord API has stopped answering
  hpc,          \* position of the button handler
  hName,        \* medicationName of the handler
  hMsg,         \* i.Message.ID of the interaction
  hToday,       \* today of the handler's GetTodayReminder call
  hRem,         \* reminder of the handler
  hOutcome,     \* the response to the last interaction
  confirmed,    \* the confirmations completed so far: [name, cdate, ldate]
  hWait,        \* i.Message.ID of the interaction blocked on handlersMutex
  due,          \* the evaluator under test: its inputs and its result
  tLast,        \* the last call of the sequential store client and its result
  tCount        \* the number of calls the sequential store client has made

clockVars == <<now, locOff>>
worldVars == <<rows, msgs>>
schedVars ==
  <<registered, spc, sIdx, sToday, sRem, sNew, sDeleted, sPassConf, tickPending>>
stopVars == <<stopCh, ctxDone, stopPc, once, closes, hung>>
handlerVars == <<hpc, hName, hMsg, hToday, hRem, hOutcome, confirmed, hWait>>
testVars == <<due, tLast, tCount>>
vars == <<clockVars, worldVars, schedVars, stopVars, handlerVars, testVars>>

\* no confirmation yet
NoDay == [cdate |-> 0 - 1, ldate |-> 0 - 1]

NoConfirmations == [n \in MedNames |-> NoDay]

\* the evaluator has not been given a medication
NoDue ==
  [med |-> Medications[1], dayIdx |-> 0 - 1, t |-> 0, off |-> 0,
   done |-> FALSE, res |-> FALSE]

\* the sequential store client has made no call; of a call it keeps the
\* arguments, the date of the store and of the configured zone at the call,
\* the result, whether a row was inserted and whether the ID was in the table
NoCall ==
  [op |-> "none", name |-> "", id |-> 0, ack |-> FALSE, msg |-> NoMessage,
   date |-> 0, cdate |-> 0, err |-> FALSE, rem |-> NoReminder,
   inserted |-> FALSE, known |-> FALSE]

\* the state after NewStore, NewClient and NewService, before Start, with
\* the table rs of the database file and the messages ms of the channel
InitWith(rs, ms) ==
  /\ now = 25
  /\ locOff \in LocOffsets
  /\ rows = rs
  /\ msgs = ms
  /\ registered = FALSE
  /\ spc = "init"
  /\ sIdx = 0
  /\ sToday = 0
  /\ sRem = NoReminder
  /\ sNew = NoMessage
  /\ sDeleted = NoMessage
  /\ sPassConf = NoConfirmations
  /\ tickPending = FALSE
  /\ stopCh = FALSE
  /\ ctxDone = FALSE
  /\ stopPc = [c \in Callers |-> "none"]
  /\ once = "fresh"
  /\ closes = 0
  /\ hung = FALSE
  /\ hpc = "idle"
  /\ hName = ""
  /\ hMsg = NoMessage
  /\ hToday = 0
  /\ hRem = NoReminder
  /\ hOutcome = "none"
  /\ hWait = NoMessage
  /\ confirmed = NoConfirmations
  /\ due = NoDue
  /\ tLast = NoCall
  /\ tCount = 0

\* the first run: an empty table and an empty channel
Init == InitWith(<<>>, <<>>)

\* the record and the message an earlier run of the same day has left: the
\* reminder of the first medication, acknowledged by the user
AcknowledgedBefore(off) ==
  [rows |-> <<[id |-> 1, date |-> Today(25, off),
               medication_type |-> Medications[1].Name, acknowledged |-> 1,
               last_reminder_time |-> Timestamp(25, off), message_id |-> 1]>>,
   msgs |-> <<[name |-> Medications[1].Name, status |-> "final"]>>]

\* the service is started on an empty database or restarted on the database
\* of an earlier run
InitLifecycle ==
  \/ Init
  \/ \E off \in LocOffsets :
       /\ locOff = off
       /\ InitWith(AcknowledgedBefore(off).rows, AcknowledgedBefore(off).msgs)

\* ---------------------------------------------------------------- clock
\* an hour passes
ClockAdvance ==
  /\ now < MaxNow
  /\ now' = now + 1
  /\ UNCHANGED <<locOff, worldVars, schedVars, stopVars, handlerVars, testVars>>

\* ------------------------------------------------------------- Dispatcher
\* faulty variant: the delete removes every message of the channel
DiscordDeleteAll(ms, id, ok) ==
  [m \in DOMAIN ms |-> [ms[m] EXCEPT !.status = "deleted"]]

\* session.ChannelMessageDelete: fails when the call fails or the message is gone
DiscordDelete(ms, id, ok) ==
  IF ok /\ id \in DOMAIN ms /\ ms[id].status # "deleted"
    THEN [ms EXCEPT ![id].status = "deleted"]
    ELSE ms

\* faulty variant: the call succeeds and no message is in the channel
DiscordSendSilent(ms, name) == ms

\* session.ChannelMessageSendComplex: a new message with the button of name
DiscordSend(ms, name) == Append(ms, [name |-> name, status |-> "live"])

\* session.ChannelMessageEditComplex: the content is replaced, the button removed
DiscordEdit(ms, id, ok) ==
  IF ok /\ id \in DOMAIN ms /\ ms[id].status # "deleted"
    THEN [ms EXCEPT ![id].status = "final"]
    ELSE ms

\* --------------------------------------------------------- Scheduler Loop
\* faulty variant: the loop goroutine returns when the pass returns
PassOverEndsLoop ==
  /\ spc' = "exited"
  /\ sIdx' = 0
  /\ sToday' = 0
  /\ sRem' = NoReminder
  /\ sNew' = NoMessage
  /\ sDeleted' = NoMessage
  /\ sPassConf' = NoConfirmations

\* the pass returns (with or without an error): back to the select of the loop
PassOver ==
  /\ spc' = "select"
  /\ sIdx' = 0
  /\ sToday' = 0
  /\ sRem' = NoReminder
  /\ sNew' = NoMessage
  /\ sDeleted' = NoMessage
  /\ sPassConf' = NoConfirmations

\* continue with the next medication of the range loop
NextMedication ==
  /\ spc' = "check"
  /\ sIdx' = sIdx + 1
  /\ sToday' = 0
  /\ sRem' = NoReminder
  /\ sNew' = NoMessage
  /\ sDeleted' = NoMessage
  /\ UNCHANGED sPassConf

\* Service.Start: the handler is registered, the loop goroutine begins the
\* startup pass
Start ==
  /\ spc = "init"
  /\ registered' = TRUE
  /\ spc' = "check"
  /\ sIdx' = 1
  /\ sPassConf' = confirmed
  /\ UNCHANGED <<sToday, sRem, sNew, sDeleted, tickPending>>
  /\ UNCHANGED <<clockVars, worldVars, stopVars, handlerVars, testVars>>

\* the range over config.Medications is exhausted: return nil
PassEnd ==
  /\ spc = "check"
  /\ sIdx > Len(Medications)
  /\ PassOver
  /\ UNCHANGED <<registered, tickPending>>
  /\ UNCHANGED <<clockVars, worldVars, stopVars, handlerVars, testVars>>

\* faulty variant: the pass does not look at shouldSendReminder
SchedCheckDueAlways ==
  /\ spc = "check"
  /\ sIdx <= Len(Medications)
  /\ spc' = "today"
  /\ UNCHANGED <<registered, sIdx, sToday, sRem, sNew, sDeleted, sPassConf, tickPending>>
  /\ UNCHANGED <<clockVars, worldVars, stopVars, handlerVars, testVars>>

\* if !s.shouldSendReminder(medication) { continue }
SchedCheckDue ==
  /\ spc = "check"
  /\ sIdx <= Len(Medications)
  /\ IF shouldSendReminder(Medications[sIdx], now, CfgOff)
       THEN spc' = "today" /\ UNCHANGED sIdx
       ELSE sIdx' = sIdx + 1 /\ UNCHANGED spc
  /\ UNCHANGED <<registered, sToday, sRem, sNew, sDeleted, sPassConf, tickPending>>
  /\ UNCHANGED <<clockVars, worldVars, stopVars, handlerVars, testVars>>

\* GetTodayReminder of the pass: today := time.Now().Format(...)
SchedToday ==
  /\ spc = "today"
  /\ sToday' = Today(now, locOff)
  /\ spc' = "query"
  /\ UNCHANGED <<registered, sIdx, sRem, sNew, sDeleted, sPassConf, tickPending>>
  /\ UNCHANGED <<clockVars, worldVars, stopVars, handlerVars, testVars>>

\* GetTodayReminder of the pass: the SELECT
SchedQuery ==
  /\ spc = "query"
  /\ \E ok \in StoreOutcomes(ctxDone) :
       LET name == Medications[sIdx].Name
       IN IF ~ok
            THEN PassOver
            ELSE IF Matching(rows, sToday, name) # {}
              THEN /\ sRem' = ScanReminder(rows[FirstMatch(rows, sToday, name)],
                                           sToday, name)
                   /\ spc' = "got"
                   /\ UNCHANGED <<sIdx, sToday, sNew, sDeleted, sPassConf>>
              ELSE /\ spc' = "insert"
                   /\ UNCHANGED <<sIdx, sToday, sRem, sNew, sDeleted, sPassConf>>
  /\ UNCHANGED <<registered, tickPending>>
  /\ UNCHANGED <<clockVars, worldVars, stopVars, handlerVars, testVars>>

\* GetTodayReminder of the pass: the INSERT after sql.ErrNoRows
SchedInsert ==
  /\ spc = "insert"
  /\ \E ok \in StoreOutcomes(ctxDone) :
       LET name == Medications[sIdx].Name
       IN IF ~ok
            THEN PassOver /\ UNCHANGED rows
            ELSE /\ rows' = InsertReminder(rows, sToday, name)
                 /\ sRem' = NewReminder(NextRowId(rows), sToday, name)
                 /\ spc' = "got"
                 /\ UNCHANGED <<sIdx, sToday, sNew, sDeleted, sPassConf>>
  /\ UNCHANGED <<registered, tickPending>>
  /\ UNCHANGED <<clockVars, msgs, stopVars, handlerVars, testVars>>

\* faulty variant: the acknowledged flag is not looked at, the pass goes on
\* to the send
SchedResendAcknowledged ==
  /\ spc = "got"
  /\ sRem.Acknowledged
  /\ spc' = "send"
  /\ UNCHANGED <<registered, sIdx, sToday, sRem, sNew, sDeleted, sPassConf, tickPending>>
  /\ UNCHANGED <<clockVars, worldVars, stopVars, handlerVars, testVars>>

\* if reminder.Acknowledged { continue }
SchedSkipAcknowledged ==
  /\ spc = "got"
  /\ sRem.Acknowledged
  /\ NextMedication
  /\ UNCHANGED <<registered, tickPending>>
  /\ UNCHANGED <<clockVars, worldVars, stopVars, handlerVars, testVars>>

\* faulty variant: a delete that fails ends the pass
SchedDeleteFatal ==
  /\ spc = "got"
  /\ ~sRem.Acknowledged
  /\ sRem.MessageID # NoMessage
  /\ ~hung
  /\ \E ok \in BOOLEAN :
       /\ msgs' = DiscordDelete(msgs, sRem.MessageID, ok)
       /\ IF msgs' = msgs
            THEN PassOver
            ELSE /\ sDeleted' = sRem.MessageID
                 /\ spc' = "send"
                 /\ UNCHANGED <<sIdx, sToday, sRem, sNew, sPassConf>>
  /\ UNCHANGED <<registered, tickPending>>
  /\ UNCHANGED <<clockVars, rows, stopVars, handlerVars, testVars>>

\* if reminder.MessageID != "" { DeleteMessage }: a failure is only logged
SchedDelete ==
  /\ spc = "got"
  /\ ~sRem.Acknowledged
  /\ sRem.MessageID # NoMessage
  /\ ~hung
  /\ \E ok \in BOOLEAN : msgs' = DiscordDelete(msgs, sRem.MessageID, ok)
  /\ sDeleted' = sRem.MessageID
  /\ spc' = "send"
  /\ UNCHANGED <<registered, sIdx, sToday, sRem, sNew, sPassConf, tickPending>>
  /\ UNCHANGED <<clockVars, rows, stopVars, handlerVars, testVars>>

\* reminder.MessageID == "": nothing to delete
SchedNoDelete ==
  /\ spc = "got"
  /\ ~sRem.Acknowledged
  /\ sRem.MessageID = NoMessage
  /\ spc' = "send"
  /\ UNCHANGED <<registered, sIdx, sToday, sRem, sNew, sDeleted, sPassConf, tickPending>>
  /\ UNCHANGED <<clockVars, worldVars, stopVars, handlerVars, testVars>>

\* faulty variant: a send that fails is passed over, the pass goes on with
\* the next medication
SchedSendGoesOn ==
  /\ spc = "send"
  /\ ~hung
  /\ \E ok \in BOOLEAN :
       IF ok
         THEN /\ Len(msgs) < MaxMsgs
              /\ msgs' = DiscordSend(msgs, Medications[sIdx].Name)
              /\ sNew' = Len(msgs) + 1
              /\ spc' = "update"
              /\ UNCHANGED <<sIdx, sToday, sRem, sDeleted, sPassConf>>
         ELSE NextMedication /\ UNCHANGED msgs
  /\ UNCHANGED <<registered, tickPending>>
  /\ UNCHANGED <<clockVars, rows, stopVars, handlerVars, testVars>>

\* newMessageID, err := s.discord.SendReminder(ctx, medication)
SchedSend ==
  /\ spc = "send"
  /\ ~hung
  /\ \E ok \in BOOLEAN :
       IF ok
         THEN /\ Len(msgs) < MaxMsgs
              /\ msgs' = DiscordSend(msgs, Medications[sIdx].Name)
              /\ sNew' = Len(msgs) + 1
              /\ spc' = "update"
              /\ UNCHANGED <<sIdx, sToday, sRem, sDeleted, sPassConf>>
         ELSE PassOver /\ UNCHANGED msgs
  /\ UNCHANGED <<registered, tickPending>>
  /\ UNCHANGED <<clockVars, rows, stopVars, handlerVars, testVars>>

\* faulty variant: an update that fails is passed over, the pass goes on with
\* the next medication
SchedUpdateSwallows ==
  /\ spc = "update"
  /\ \E ok \in StoreOutcomes(ctxDone) :
       /\ rows' = IF ok
                    THEN UpdateRows(rows, sRem.ID, FALSE, sNew, Timestamp(now, locOff))
                    ELSE rows
       /\ NextMedication
  /\ UNCHANGED <<registered, tickPending>>
  /\ UNCHANGED <<clockVars, msgs, stopVars, handlerVars, testVars>>

\* s.store.UpdateReminderStatus(ctx, reminder.ID, false, newMessageID)
SchedUpdate ==
  /\ spc = "update"
  /\ \E ok \in StoreOutcomes(ctxDone) :
       IF ok
         THEN /\ rows' = UpdateRows(rows, sRem.ID, FALSE, sNew, Timestamp(now, locOff))
              /\ NextMedication
         ELSE PassOver /\ UNCHANGED rows
  /\ UNCHANGED <<registered, tickPending>>
  /\ UNCHANGED <<clockVars, msgs, stopVars, handlerVars, testVars>>

\* faulty variant: a pass begins and the tick stays in ticker.C
LoopTickKeepsTick ==
  /\ spc = "select"
  /\ tickPending
  /\ spc' = "check"
  /\ sIdx' = 1
  /\ sPassConf' = confirmed
  /\ UNCHANGED <<registered, sToday, sRem, sNew, sDeleted, tickPending>>
  /\ UNCHANGED <<clockVars, worldVars, stopVars, handlerVars, testVars>>

\* case <-ticker.C: the next pass begins
LoopTick ==
  /\ spc = "select"
  /\ tickPending
  /\ tickPending' = FALSE
  /\ spc' = "check"
  /\ sIdx' = 1
  /\ sPassConf' = confirmed
  /\ UNCHANGED <<registered, sToday, sRem, sNew, sDeleted>>
  /\ UNCHANGED <<clockVars, worldVars, stopVars, handlerVars, testVars>>

\* case <-s.stopCh: return (the deferred ticker.Stop and wg.Done run)
LoopStop ==
  /\ spc = "select"
  /\ stopCh
  /\ spc' = "exited"
  /\ tickPending' = FALSE
  /\ UNCHANGED <<registered, sIdx, sToday, sRem, sNew, sDeleted, sPassConf>>
  /\ UNCHANGED <<clockVars, worldVars, stopVars, handlerVars, testVars>>

\* case <-ctx.Done(): return
LoopCtxDone ==
  /\ spc = "select"
  /\ ctxDone
  /\ spc' = "exited"
  /\ tickPending' = FALSE
  /\ UNCHANGED <<registered, sIdx, sToday, sRem, sNew, sDeleted, sPassConf>>
  /\ UNCHANGED <<clockVars, worldVars, stopVars, handlerVars, testVars>>

\* case <-ticker.C while the loop waits in the select: the ticker fires and
\* the loop receives the tick at once, the next pass begins
TickPass ==
  /\ spc = "select"
  /\ ~tickPending
  /\ spc' = "check"
  /\ sIdx' = 1
  /\ sPassConf' = confirmed
  /\ UNCHANGED <<registered, sToday, sRem, sNew, sDeleted, tickPending>>
  /\ UNCHANGED <<clockVars, worldVars, stopVars, handlerVars, testVars>>

\* faulty variant: every tick runs a pass of its own, a tick that arrives
\* during a pass begins a second pass
TimerFireStartsPass ==
  /\ spc \notin {"init", "exited"}
  /\ ~tickPending
  /\ IF spc = "select"
       THEN tickPending' = TRUE /\ UNCHANGED <<spc, sIdx, sPassConf>>
       ELSE /\ spc' = "check"
            /\ sIdx' = 1
            /\ sPassConf' = confirmed
            /\ UNCHANGED tickPending
  /\ UNCHANGED <<registered, sToday, sRem, sNew, sDeleted>>
  /\ UNCHANGED <<clockVars, worldVars, stopVars, handlerVars, testVars>>

\* the ticker fires: ticker.C holds at most one tick
TimerFire ==
  /\ spc \notin {"init", "exited"}
  /\ ~tickPending
  /\ tickPending' = TRUE
  /\ UNCHANGED <<registered, spc, sIdx, sToday, sRem, sNew, sDeleted, sPassConf>>
  /\ UNCHANGED <<clockVars, worldVars, stopVars, handlerVars, testVars>>

\* faulty variant: Stop without stopOnce, every call closes stopCh and waits
StopNoOnce(c) ==
  /\ spc # "init"
  /\ stopPc[c] = "none"
  /\ stopCh' = TRUE
  /\ closes' = closes + 1
  /\ stopPc' = [stopPc EXCEPT ![c] = "waiting"]
  /\ UNCHANGED <<ctxDone, once, hung>>
  /\ UNCHANGED <<clockVars, worldVars, schedVars, handlerVars, testVars>>

\* Service.Stop by caller c, after Start: stopOnce.Do(f). The first call runs
\* f, which closes stopCh and then waits on the WaitGroup; a call made while
\* f runs blocks in Do until f has returned; a call made afterwards returns
\* at once
Stop(c) ==
  /\ spc # "init"
  /\ stopPc[c] = "none"
  /\ IF once = "fresh"
       THEN /\ once' = "running"
            /\ stopCh' = TRUE
            /\ closes' = closes + 1
            /\ stopPc' = [stopPc EXCEPT ![c] = "waiting"]
       ELSE /\ stopPc' = [stopPc EXCEPT ![c] =
                            IF once = "running" THEN "blocked" ELSE "returned"]
            /\ UNCHANGED <<once, stopCh, closes>>
  /\ UNCHANGED <<ctxDone, hung>>
  /\ UNCHANGED <<clockVars, worldVars, schedVars, handlerVars, testVars>>

\* faulty variant: Stop returns without waiting for the loop goroutine
StopReturnNoWait(c) ==
  /\ stopPc[c] = "waiting"
  /\ stopPc' = [stopPc EXCEPT ![c] = "returned"]
  /\ once' = "done"
  /\ UNCHANGED <<stopCh, ctxDone, closes, hung>>
  /\ UNCHANGED <<clockVars, worldVars, schedVars, handlerVars, testVars>>

\* s.wg.Wait() returns once the loop goroutine has run wg.Done; f returns,
\* stopOnce is done and Stop returns
StopReturn(c) ==
  /\ stopPc[c] = "waiting"
  /\ spc = "exited"
  /\ stopPc' = [stopPc EXCEPT ![c] = "returned"]
  /\ once' = "done"
  /\ UNCHANGED <<stopCh, ctxDone, closes, hung>>
  /\ UNCHANGED <<clockVars, worldVars, schedVars, handlerVars, testVars>>

\* a call blocked in stopOnce.Do returns once f has returned
StopUnblock(c) ==
  /\ stopPc[c] = "blocked"
  /\ once = "done"
  /\ stopPc' = [stopPc EXCEPT ![c] = "returned"]
  /\ UNCHANGED <<stopCh, ctxDone, once, closes, hung>>
  /\ UNCHANGED <<clockVars, worldVars, schedVars, handlerVars, testVars>>

\* main: cancel() on a signal
Cancel ==
  /\ ~ctxDone
  /\ ctxDone' = TRUE
  /\ UNCHANGED <<stopCh, stopPc, once, closes, hung>>
  /\ UNCHANGED <<clockVars, worldVars, schedVars, handlerVars, testVars>>

\* the Discord API stops answering: from now on a call of the session
\* (ChannelMessageSendComplex, ChannelMessageDelete) does not return
DiscordHangs ==
  /\ spc # "init"
  /\ ~hung
  /\ hung' = TRUE
  /\ UNCHANGED <<stopCh, ctxDone, stopPc, once, closes>>
  /\ UNCHANGED <<clockVars, worldVars, schedVars, handlerVars, testVars>>

\* ------------------------------------------------- Acknowledgment Handler
\* the handler answers the interaction (InteractionRespond, respondWithError)
HandlerDone(outcome) ==
  /\ hpc' = "responded"
  /\ hOutcome' = outcome
  /\ UNCHANGED <<hName, hMsg, hToday, hRem>>

\* faulty variant: the handler never takes the "already acknowledged" branch
NeverAcknowledged(reminder) == FALSE

\* if reminder.Acknowledged { respond; return }
AlreadyAcknowledged(reminder) == reminder.Acknowledged

\* the day of a confirmation completed at time t: the date in the configured
\* zone and the date of the store
ConfirmationDay(t, off) == [cdate |-> LocalDate(t, CfgOff), ldate |-> Today(t, off)]

\* the user presses the button of message m; handleInteraction takes
\* handlersMutex and calls the "medication_taken_" handler, which cuts the
\* medication name out of the button's custom ID and calls GetTodayReminder:
\* today := time.Now().Format(...)
Click(m) ==
  /\ registered
  /\ hpc = "idle"
  /\ m \in DOMAIN msgs
  /\ msgs[m].status = "live"
  /\ hpc' = "query"
  /\ hName' = msgs[m].name
  /\ hMsg' = m
  /\ hToday' = Today(now, locOff)
  /\ UNCHANGED <<hRem, hOutcome, confirmed>>
  /\ UNCHANGED hWait
  /\ UNCHANGED <<clockVars, worldVars, schedVars, stopVars, testVars>>

\* the user presses the button of message m while a handler runs:
\* handleInteraction is called in a goroutine of its own and blocks in
\* handlersMutex.Lock()
ClickWaits(m) ==
  /\ registered
  /\ hpc # "idle"
  /\ hWait = NoMessage
  /\ m \in DOMAIN msgs
  /\ msgs[m].status = "live"
  /\ hWait' = m
  /\ UNCHANGED <<hpc, hName, hMsg, hToday, hRem, hOutcome, confirmed>>
  /\ UNCHANGED <<clockVars, worldVars, schedVars, stopVars, testVars>>

\* faulty variant: handleInteraction calls the handler without taking
\* handlersMutex, the handler of the second click begins while the first runs
ClickRunsNoMutex ==
  /\ hWait # NoMessage
  /\ hpc' = "query"
  /\ hName' = msgs[hWait].name
  /\ hMsg' = hWait
  /\ hToday' = Today(now, locOff)
  /\ hWait' = NoMessage
  /\ UNCHANGED <<hRem, hOutcome, confirmed>>
  /\ UNCHANGED <<clockVars, worldVars, schedVars, stopVars, testVars>>

\* handlersMutex is free: the blocked goroutine takes it and calls the
\* handler, with the interaction it was given when the button was pressed
ClickRuns ==
  /\ hpc = "idle"
  /\ hWait # NoMessage
  /\ hpc' = "query"
  /\ hName' = msgs[hWait].name
  /\ hMsg' = hWait
  /\ hToday' = Today(now, locOff)
  /\ hWait' = NoMessage
  /\ UNCHANGED <<hRem, hOutcome, confirmed>>
  /\ UNCHANGED <<clockVars, worldVars, schedVars, stopVars, testVars>>

\* GetTodayReminder of the handler: the SELECT
HQuery ==
  /\ hpc = "query"
  /\ \E ok \in StoreOutcomes(ctxDone) :
       IF ~ok
         THEN HandlerDone("error")
         ELSE IF Matching(rows, hToday, hName) # {}
           THEN /\ hRem' = ScanReminder(rows[FirstMatch(rows, hToday, hName)],
                                        hToday, hName)
                /\ hpc' = "got"
                /\ UNCHANGED <<hName, hMsg, hToday, hOutcome>>
           ELSE /\ hpc' = "insert"
                /\ UNCHANGED <<hName, hMsg, hToday, hRem, hOutcome>>
  /\ UNCHANGED confirmed
  /\ UNCHANGED hWait
  /\ UNCHANGED <<clockVars, worldVars, schedVars, stopVars, testVars>>

\* GetTodayReminder of the handler: the INSERT after sql.ErrNoRows
HInsert ==
  /\ hpc = "insert"
  /\ \E ok \in StoreOutcomes(ctxDone) :
       IF ~ok
         THEN HandlerDone("error") /\ UNCHANGED rows
         ELSE /\ rows' = InsertReminder(rows, hToday, hName)
              /\ hRem' = NewReminder(NextRowId(rows), hToday, hName)
              /\ hpc' = "got"
              /\ UNCHANGED <<hName, hMsg, hToday, hOutcome>>
  /\ UNCHANGED confirmed
  /\ UNCHANGED hWait
  /\ UNCHANGED <<clockVars, msgs, schedVars, stopVars, testVars>>

\* the record is acknowledged already: respond, no state change
HAlready ==
  /\ hpc = "got"
  /\ AlreadyAcknowledged(hRem)
  /\ HandlerDone("already")
  /\ UNCHANGED confirmed
  /\ UNCHANGED hWait
  /\ UNCHANGED <<clockVars, worldVars, schedVars, stopVars, testVars>>

\* faulty variant: the error of the update is not looked at, the handler goes
\* on to the edit
HUpdateIgnoresError ==
  /\ hpc = "got"
  /\ ~AlreadyAcknowledged(hRem)
  /\ \E ok \in StoreOutcomes(ctxDone) :
       rows' = IF ok
                 THEN UpdateRows(rows, hRem.ID, TRUE, hMsg, Timestamp(now, locOff))
                 ELSE rows
  /\ hpc' = "edit"
  /\ UNCHANGED <<hName, hMsg, hToday, hRem, hOutcome>>
  /\ UNCHANGED confirmed
  /\ UNCHANGED hWait
  /\ UNCHANGED <<clockVars, msgs, schedVars, stopVars, testVars>>

\* c.store.UpdateReminderStatus(ctx, reminder.ID, true, i.Message.ID)
HUpdate ==
  /\ hpc = "got"
  /\ ~AlreadyAcknowledged(hRem)
  /\ \E ok \in StoreOutcomes(ctxDone) :
       IF ok
         THEN /\ rows' = UpdateRows(rows, hRem.ID, TRUE, hMsg, Timestamp(now, locOff))
              /\ hpc' = "edit"
              /\ UNCHANGED <<hName, hMsg, hToday, hRem, hOutcome>>
         ELSE HandlerDone("error") /\ UNCHANGED rows
  /\ UNCHANGED confirmed
  /\ UNCHANGED hWait
  /\ UNCHANGED <<clockVars, msgs, schedVars, stopVars, testVars>>

\* the message is edited (a failure is only logged) and the interaction is
\* answered with the confirmation
HEdit ==
  /\ hpc = "edit"
  /\ \E ok \in BOOLEAN : msgs' = DiscordEdit(msgs, hMsg, ok)
  /\ HandlerDone("confirmed")
  /\ confirmed' = IF hName \in MedNames
                    THEN [confirmed EXCEPT ![hName] =
                            [ConfirmationDay(now, locOff) EXCEPT !.ldate = hToday]]
                    ELSE confirmed
  /\ UNCHANGED hWait
  /\ UNCHANGED <<clockVars, rows, schedVars, stopVars, testVars>>

\* the handler returns and handleInteraction releases handlersMutex
HReturn ==
  /\ hpc = "responded"
  /\ hpc' = "idle"
  /\ hOutcome' = "none"
  /\ hName' = ""
  /\ hMsg' = NoMessage
  /\ hToday' = 0
  /\ hRem' = NoReminder
  /\ UNCHANGED confirmed
  /\ UNCHANGED hWait
  /\ UNCHANGED <<clockVars, worldVars, schedVars, stopVars, testVars>>

\* ------------------------------------------------------- the whole service
Next ==
  \/ ClockAdvance
  \/ Start
  \/ PassEnd
  \/ SchedCheckDue
  \/ SchedToday
  \/ SchedQuery
  \/ SchedInsert
  \/ SchedSkipAcknowledged
  \/ SchedDelete
  \/ SchedNoDelete
  \/ SchedSend
  \/ SchedUpdate
  \/ TickPass
  \/ \E m \in 1..MaxMsgs : Click(m)
  \/ HQuery
  \/ HInsert
  \/ HAlready
  \/ HUpdate
  \/ HEdit
  \/ HReturn

\* the service with the data of a pass and of the handler: every pass begins
\* with a tick received in the select of the loop
Spec == Init /\ [][Next]_vars

\* a medication of an earlier configuration, no longer in config.Medications
Removed == "Z"

\* the service is restarted with a configuration that no longer has the
\* medication Removed; its last reminder is still in the channel, unanswered
InitRestart == InitWith(<<>>, <<[name |-> Removed, status |-> "live"]>>)

SpecRestart == InitRestart /\ [][Next]_vars

\* the hours to the pass of the following day: the same hour of the next
\* day, or one hour less
NightWaits == {23, 24}

\* a night passes between two passes, with no pass at which a medication is
\* due and no click
NightPasses ==
  /\ now <= MaxNow
  /\ spc = "select"
  /\ hpc = "idle"
  /\ \E d \in NightWaits : now' = now + d
  /\ UNCHANGED <<locOff, worldVars, schedVars, stopVars, handlerVars, testVars>>

\* the service over two days
NextDays ==
  \/ Next
  \/ NightPasses

SpecDays == Init /\ [][NextDays]_vars

\* the steps of the reminderLoop goroutine inside a pass, and the receipt of
\* a tick that waits in ticker.C
PassSteps ==
  \/ PassEnd
  \/ SchedCheckDue
  \/ SchedToday
  \/ SchedQuery
  \/ SchedInsert
  \/ SchedSkipAcknowledged
  \/ SchedDelete
  \/ SchedNoDelete
  \/ SchedSend
  \/ SchedUpdate
  \/ LoopTick

\* the Scheduler Loop with its lifecycle and no interaction of the user: the
\* ticker, Stop called by several goroutines, the cancellation of the context
\* and a Discord API that stops answering
NextLifecycle ==
  \/ ClockAdvance
  \/ Start
  \/ PassSteps
  \/ TimerFire
  \/ LoopStop
  \/ LoopCtxDone
  \/ \E c \in Callers : Stop(c)
  \/ \E c \in Callers : StopReturn(c)
  \/ \E c \in Callers : StopUnblock(c)
  \/ Cancel
  \/ DiscordHangs

SpecLifecycle == InitLifecycle /\ [][NextLifecycle]_vars

\* the goroutines are scheduled: the loop goroutine takes its next step in a
\* pass, a select with a closed stopCh or a cancelled context ready takes
\* that case sooner or later (Go picks among the ready cases at random), and
\* a caller of Stop that can return does
SpecShutdown ==
  /\ SpecLifecycle
  /\ WF_vars(PassSteps)
  /\ SF_vars(LoopStop)
  /\ SF_vars(LoopCtxDone)
  /\ \A c \in Callers : WF_vars(StopReturn(c)) /\ WF_vars(StopUnblock(c))

\* ------------------------------------------------ the evaluator by itself
\* the spellings of weekday k (0 = Sunday) a configuration may use
DaySpellings(k) ==
  {ToLower(WeekdayString[k + 1]), WeekdayString[k + 1], ToUpper(WeekdayString[k + 1])}

\* a day that validateConfig accepts (it is not empty) and that names no weekday
NotADay == <<109, 111, 110>>

\* the medications validateConfig accepts: hour 0..23, frequency "", "daily" or
\* "weekly", a weekly medication with a day; dayIdx is the weekday the day names
DueInputs ==
  {[med |-> [Name |-> "M", Hour |-> h, Frequency |-> f, Day |-> d],
    dayIdx |-> 1]
     : h \in 0..23, f \in {"", "daily"}, d \in {<<>>, WeekdayString[2]}}
  \cup
  UNION {{[med |-> [Name |-> "M", Hour |-> h, Frequency |-> "weekly", Day |-> d],
           dayIdx |-> k]
            : h \in 0..23, d \in DaySpellings(k)} : k \in 0..6}
  \cup
  {[med |-> [Name |-> "M", Hour |-> h, Frequency |-> "weekly", Day |-> NotADay],
    dayIdx |-> 0 - 1] : h \in 0..23}

\* one week of hours, from a Friday 00:00 UTC on
DueTimes == 24..191

\* configured zones
DueOffsets == {0, -2}

InitDue ==
  /\ \E in \in DueInputs, t \in DueTimes, off \in DueOffsets :
       due = [med |-> in.med, dayIdx |-> in.dayIdx, t |-> t, off |-> off,
              done |-> FALSE, res |-> FALSE]
  /\ now = 25
  /\ locOff = 0
  /\ rows = <<>>
  /\ msgs = <<>>
  /\ registered = FALSE
  /\ spc = "init"
  /\ sIdx = 0
  /\ sToday = 0
  /\ sRem = NoReminder
  /\ sNew = NoMessage
  /\ sDeleted = NoMessage
  /\ sPassConf = NoConfirmations
  /\ tickPending = FALSE
  /\ stopCh = FALSE
  /\ ctxDone = FALSE
  /\ stopPc = [c \in Callers |-> "none"]
  /\ once = "fresh"
  /\ closes = 0
  /\ hung = FALSE
  /\ hpc = "idle"
  /\ hName = ""
  /\ hMsg = NoMessage
  /\ hToday = 0
  /\ hRem = NoReminder
  /\ hOutcome = "none"
  /\ hWait = NoMessage
  /\ confirmed = NoConfirmations
  /\ tLast = NoCall
  /\ tCount = 0

\* s.shouldSendReminder(medication) at time due.t with Config.Timezone due.off
Evaluate ==
  /\ ~due.done
  /\ due' = [due EXCEPT !.done = TRUE,
                        !.res = shouldSendReminder(due.med, due.t, due.off)]
  /\ UNCHANGED <<tLast, tCount>>
  /\ UNCHANGED <<clockVars, worldVars, schedVars, stopVars, handlerVars>>

NextDue == Evaluate

SpecDue == InitDue /\ [][NextDue]_vars

\* ---------------------------------------------------- the store by itself
\* A single client calls the store, one call after the other, as
\* TestGetTodayReminder does.

\* message IDs the client passes to UpdateReminderStatus
TestMessages == {NoMessage, 1}

\* the error of UpdateReminderStatus: only a failed ExecContext is an error
UpdateError(rs, id, ok) == ~ok

InitStore ==
  /\ now = 25
  /\ locOff \in LocOffsets
  /\ rows = <<>>
  /\ tLast = NoCall
  /\ tCount = 0
  /\ msgs = <<>>
  /\ registered = FALSE
  /\ spc = "init"
  /\ sIdx = 0
  /\ sToday = 0
  /\ sRem = NoReminder
  /\ sNew = NoMessage
  /\ sDeleted = NoMessage
  /\ sPassConf = NoConfirmations
  /\ tickPending = FALSE
  /\ stopCh = FALSE
  /\ ctxDone = FALSE
  /\ stopPc = [c \in Callers |-> "none"]
  /\ once = "fresh"
  /\ closes = 0
  /\ hung = FALSE
  /\ hpc = "idle"
  /\ hName = ""
  /\ hMsg = NoMessage
  /\ hToday = 0
  /\ hRem = NoReminder
  /\ hOutcome = "none"
  /\ hWait = NoMessage
  /\ confirmed = NoConfirmations
  /\ due = NoDue

\* reminder, err := store.GetTodayReminder(ctx, name)
TestGet(name) ==
  /\ tCount < MaxSteps
  /\ tCount' = tCount + 1
  /\ \E ok \in StoreOutcomes(FALSE) :
       LET r == GetTodayReminder(rows, now, locOff, name)
       IN IF ok
            THEN /\ rows' = r.rows
                 /\ tLast' = [NoCall EXCEPT !.op = "get", !.name = name,
                                            !.date = Today(now, locOff),
                                            !.cdate = LocalDate(now, CfgOff),
                                            !.rem = r.rem,
                                            !.inserted = (Len(r.rows) > Len(rows))]
            ELSE /\ rows' = rows
                 /\ tLast' = [NoCall EXCEPT !.op = "get", !.name = name,
                                            !.date = Today(now, locOff),
                                            !.cdate = LocalDate(now, CfgOff),
                                            !.err = TRUE]
  /\ UNCHANGED <<now, locOff, msgs, due>>
  /\ UNCHANGED <<schedVars, stopVars, handlerVars>>

\* err := store.UpdateReminderStatus(ctx, id, acknowledged, messageID)
TestUpdate(id, acknowledged, messageID) ==
  /\ tCount < MaxSteps
  /\ tCount' = tCount + 1
  /\ \E ok \in StoreOutcomes(FALSE) :
       /\ rows' = IF ok
                    THEN UpdateRows(rows, id, acknowledged, messageID,
                                    Timestamp(now, locOff))
                    ELSE rows
       /\ tLast' = [NoCall EXCEPT !.op = "update", !.id = id,
                                  !.ack = acknowledged, !.msg = messageID,
                                  !.date = Today(now, locOff),
                                  !.cdate = LocalDate(now, CfgOff),
                                  !.err = UpdateError(rows, id, ok),
                                  !.known = (\E i \in DOMAIN rows : rows[i].id = id)]
  /\ UNCHANGED <<now, locOff, msgs, due>>
  /\ UNCHANGED <<schedVars, stopVars, handlerVars>>

\* the waits of the client between two calls: an hour, a day
TestWaits == {1, 24}

\* d hours pass between two calls
TestWait(d) ==
  /\ tCount < MaxSteps
  /\ tCount' = tCount + 1
  /\ now' = now + d
  /\ UNCHANGED <<locOff, worldVars, due, tLast>>
  /\ UNCHANGED <<schedVars, stopVars, handlerVars>>

NextStore ==
  \/ \E name \in MedNames : TestGet(name)
  \/ \E id \in 1..(Len(rows) + 1), acknowledged \in BOOLEAN, messageID \in TestMessages :
       TestUpdate(id, acknowledged, messageID)
  \/ \E d \in TestWaits : TestWait(d)

SpecStore == InitStore /\ [][NextStore]_vars

\* ================================================================= claims

\* C1: in every reachable state there is at most one Due-Date Record per
\* (event name, date), also when the pass and the handler call
\* GetTodayReminder for the same event at the same time.
C1_OneRecordPerDay ==
  \A i \in DOMAIN rows : \A j \in DOMAIN rows :
    (rows[i].date = rows[j].date
       /\ rows[i].medication_type = rows[j].medication_type) => i = j

\* C2: the acknowledged flag of a record never goes from true back to false,
\* whatever the interleaving of a pass and the handler.
C2_AcknowledgedIsStable ==
  [][\A i \in DOMAIN rows : rows[i].acknowledged = 1 => rows'[i].acknowledged = 1]_vars

\* the pass in flight began after a confirmation for the medication it is at
\* was completed on the day it is now, in the configured zone and in the store
ConfirmedBeforePass ==
  /\ sIdx \in DOMAIN Medications
  /\ sPassConf[Medications[sIdx].Name] = ConfirmationDay(now, locOff)

\* C3: once the handler has completed with the confirmation for an event, no
\* pass that begins afterwards on the same day sends a notification for it.
C3_NoSendAfterConfirmation ==
  [][Len(msgs') > Len(msgs) => ~ConfirmedBeforePass]_vars

\* C4: all GetTodayReminder calls for an event made while the date of the
\* configured zone is the same resolve to the same record, whatever the zone
\* of the process.
C4_KeyedByConfiguredDay ==
  [][(/\ tLast.op = "get" /\ ~tLast.err
      /\ tLast'.op = "get" /\ ~tLast'.err
      /\ tCount' = tCount + 1 /\ now' = now
      /\ tLast'.name = tLast.name
      /\ tLast'.cdate = tLast.cdate)
     => tLast'.rem.ID = tLast.rem.ID]_vars

\* the hour of the evaluation in the configured zone
DueHour == (due.t + due.off) % 24

\* C5: for a daily medication with target hour H and local hour h the
\* evaluator answers true exactly when H <= h < H + 5; the window does not
\* wrap past hour 23.
C5_DailyWindow ==
  (due.done /\ due.med.Frequency \in {"", "daily"})
    => (due.res <=> (due.med.Hour <= DueHour /\ DueHour < due.med.Hour + 5))

\* a daily medication with target hour 20 is due at 23:00, the last hour of
\* its window
C5_Witness ==
  /\ due.done
  /\ due.med.Frequency = "daily"
  /\ due.med.Hour = 20
  /\ DueHour = 23
  /\ due.res

\* C6: for a weekly medication the evaluator answers false on every weekday
\* but the configured one, however the day is capitalised, and on the
\* configured day what it answers for the same medication made daily.
C6_WeeklyDay ==
  (due.done /\ due.med.Frequency = "weekly")
    => (due.res <=>
          (/\ Weekday(due.t, due.off) = due.dayIdx
           /\ shouldSendReminder([due.med EXCEPT !.Frequency = "daily"],
                                 due.t, due.off)))

\* a weekly medication configured as "Friday" is due on a Friday
C6_Witness ==
  /\ due.done
  /\ due.med.Frequency = "weekly"
  /\ due.med.Day = WeekdayString[6]
  /\ Weekday(due.t, due.off) = 5
  /\ due.res

\* C7: of two GetTodayReminder calls in sequence for the same event with no
\* date change between them the second returns the ID of the first and
\* inserts no row; a call that creates the record returns it unacknowledged,
\* with today's date and the given name.
C7_SecondGetReuses ==
  /\ [](tLast.op = "get" /\ tLast.inserted
          => /\ ~tLast.rem.Acknowledged
             /\ tLast.rem.Date = tLast.date
             /\ tLast.rem.MedicationType = tLast.name
             /\ \E i \in DOMAIN rows :
                  /\ rows[i].id = tLast.rem.ID
                  /\ rows[i].date = tLast.date
                  /\ rows[i].medication_type = tLast.name
                  /\ rows[i].acknowledged = 0)
  /\ [][(/\ tLast.op = "get" /\ ~tLast.err
         /\ tLast'.op = "get" /\ ~tLast'.err
         /\ tCount' = tCount + 1 /\ now' = now
         /\ tLast'.name = tLast.name
         /\ tLast'.date = tLast.date)
        => (/\ tLast'.rem.ID = tLast.rem.ID
            /\ ~tLast'.inserted
            /\ rows' = rows)]_vars

\* the first call created the record and the second call, the last one,
\* found it
C7_Witness ==
  /\ tCount = 2
  /\ Len(rows) = 1
  /\ tLast.op = "get"
  /\ ~tLast.err
  /\ ~tLast.inserted
  /\ tLast.rem.ID = rows[1].id

\* C8: after UpdateReminderStatus(id, acknowledged, ref) has succeeded on
\* today's record of an event, the next GetTodayReminder for the event on the
\* same day returns that ID with that flag and that reference.
C8_ReadYourWrites ==
  [][(/\ tLast.op = "update" /\ ~tLast.err
      /\ tLast'.op = "get" /\ ~tLast'.err
      /\ tCount' = tCount + 1 /\ now' = now
      /\ \E i \in DOMAIN rows :
           /\ rows[i].id = tLast.id
           /\ rows[i].date = tLast'.date
           /\ rows[i].medication_type = tLast'.name)
     => (/\ tLast'.rem.ID = tLast.id
         /\ tLast'.rem.Acknowledged = tLast.ack
         /\ tLast'.rem.MessageID = tLast.msg)]_vars

\* a GetTodayReminder that follows the update of the only record to
\* acknowledged with message 1 returns it so
C8_Witness ==
  /\ tCount = 3
  /\ Len(rows) = 1
  /\ tLast.op = "get"
  /\ ~tLast.err
  /\ tLast.rem.Acknowledged
  /\ tLast.rem.MessageID = 1

\* C9: UpdateReminderStatus with an ID that is not in the table returns an
\* error (and changes no record).
C9_UnknownIdIsError ==
  (tLast.op = "update" /\ ~tLast.known) => tLast.err

\* C10: when the handler finds today's record acknowledged it answers
\* "already acknowledged" and neither updates the record nor edits the
\* message: rows and messages are as before.
C10_AlreadyAcknowledged ==
  [][(hpc = "got" /\ hRem.Acknowledged /\ hpc' # hpc)
     => (/\ hpc' = "responded"
         /\ hOutcome' = "already"
         /\ rows' = rows
         /\ msgs' = msgs)]_vars

\* the handler has answered "already acknowledged" for a record that is
\* acknowledged in the table
C10_Witness ==
  /\ hpc = "responded"
  /\ hOutcome = "already"
  /\ hRem.Acknowledged
  /\ \E i \in DOMAIN rows : rows[i].id = hRem.ID /\ rows[i].acknowledged = 1

\* C11: a click for an event name that is not in the configuration gets a
\* non-fatal error outcome and creates no record: the table never holds a
\* record of a name outside the configuration.
C11_UnknownNameIsError ==
  /\ \A i \in DOMAIN rows : rows[i].medication_type \in MedNames
  /\ (hpc = "responded" /\ hName \notin MedNames) => hOutcome = "error"

\* C12: Start begins the first pass at once, with no tick received; after
\* it a pass begins only by the receipt of one tick in the select of the
\* loop, every tick received there begins one pass, and no pass begins while
\* another is in flight.
C12_PassPerTick ==
  [][/\ (spc = "init" /\ spc' # "init")
          => (spc' = "check" /\ sIdx' = 1 /\ ~tickPending /\ ~tickPending')
     /\ (spc = "select" /\ spc' = "check")
          => (tickPending /\ ~tickPending' /\ sIdx' = 1)
     /\ (spc = "select" /\ tickPending /\ ~tickPending')
          => spc' \in {"check", "exited"}
     /\ (sIdx' = 1 /\ sIdx # 1) => spc \in {"init", "select"}]_vars

\* a pass that a tick began: the record of the startup pass has its
\* notification already
C12_Witness ==
  /\ spc = "check"
  /\ sIdx = 1
  /\ ~tickPending
  /\ \E i \in DOMAIN rows : rows[i].acknowledged = 0 /\ rows[i].message_id = 1

\* C13: Stop returns only after the loop goroutine has exited; the loop
\* exits only from its select, so a pass in flight runs to its end first;
\* and once a call of Stop has returned the loop performs no operation on
\* the store or the channel.
C13_StopWaitsForLoop ==
  /\ [](\A c \in Callers : stopPc[c] = "returned" => spc = "exited")
  /\ [][(spc' = "exited" /\ spc # "exited") => spc = "select"]_vars
  /\ [][(\E c \in Callers : stopPc[c] = "returned")
          => UNCHANGED <<rows, msgs, spc>>]_vars

\* Stop has returned to main, without a cancellation, after a pass that sent
\* a notification
C13_Witness ==
  /\ stopPc["main"] = "returned"
  /\ ~ctxDone
  /\ spc = "exited"
  /\ \E m \in DOMAIN msgs : msgs[m].status = "live"

\* C14: however many goroutines call Stop, one after another or at the
\* same time, stopCh is closed once; no call returns before the loop has
\* exited; and a call that is not the first changes nothing but its own
\* position.
C14_StopIdempotent ==
  /\ [](closes <= 1)
  /\ [](\A c \in Callers : stopPc[c] = "returned" => (spc = "exited" /\ once = "done"))
  /\ [][(\E c \in Callers :
            stopPc[c] = "none" /\ stopPc'[c] # "none" /\ once # "fresh")
          => UNCHANGED <<stopCh, closes, once, ctxDone, hung, schedVars, worldVars>>]_vars

\* both callers of Stop have returned and stopCh was closed once
C14_Witness ==
  /\ \A c \in Callers : stopPc[c] = "returned"
  /\ closes = 1
  /\ stopCh

LastSent(n) ==
  CHOOSE m \in DOMAIN msgs :
    /\ msgs[m].name = n
    /\ \A k \in DOMAIN msgs : msgs[k].name = n => k <= m

\* C16: between passes, when no click is being handled, the notification
\* sent last for a medication is the last-notification reference of a
\* record of that medication; also after a pass whose send succeeded and
\* whose update failed, and after a pass whose delete failed.
C16_ReferenceIsLastSent ==
  (spc = "select" /\ hpc = "idle")
    => \A n \in MedNames :
         (\E m \in DOMAIN msgs : msgs[m].name = n)
           => \E i \in DOMAIN rows :
                /\ rows[i].medication_type = n
                /\ rows[i].message_id = LastSent(n)

\* C17: an acknowledgment of an earlier day does not suppress the reminder:
\* a pass that reads today's record of a due medication whose confirmations
\* were all completed on earlier days (of the configured zone) gets a record
\* that is not acknowledged.
C17_NextDayResumes ==
  [][(/\ spc = "query" /\ spc' = "got"
      /\ hpc = "idle"
      /\ sToday = Today(now, locOff)
      /\ confirmed[Medications[sIdx].Name].cdate < LocalDate(now, CfgOff))
     => ~sRem'.Acknowledged]_vars

\* C18: a pass reads today's record of a medication exactly when the
\* medication is due; a pass that reads an unacknowledged record goes on to
\* send; a send that succeeds puts exactly one new notification of the
\* medication in the channel; the pass then writes the record and moves to
\* the next medication, so it sends once for the medication; and no other
\* step puts a notification in the channel. (A step back to the select is a
\* call that failed.)
C18_ResendEachPass ==
  [][/\ (spc = "check" /\ sIdx <= Len(Medications) /\ <<spc, sIdx>>' # <<spc, sIdx>>)
          => (spc' = "today" <=> shouldSendReminder(Medications[sIdx], now, CfgOff))
     /\ (spc = "today" /\ spc' # spc) => spc' = "query"
     /\ (spc = "got" /\ ~sRem.Acknowledged /\ spc' # spc) => spc' = "send"
     /\ (spc = "send" /\ spc' # spc)
          => \/ spc' = "select"
             \/ /\ spc' = "update"
                /\ Len(msgs') = Len(msgs) + 1
                /\ msgs'[Len(msgs')] =
                     [name |-> Medications[sIdx].Name, status |-> "live"]
                /\ sNew' = Len(msgs')
     /\ (spc = "update" /\ spc' # spc)
          => \/ spc' = "select"
             \/ spc' = "check" /\ sIdx' = sIdx + 1
     /\ (Len(msgs') > Len(msgs))
          => (spc = "send" /\ Len(msgs') = Len(msgs) + 1)]_vars

\* the reminder was sent again: a second pass has deleted the first
\* notification of the unacknowledged record and sent the second
C18_Witness ==
  /\ Len(msgs) = 2
  /\ msgs[1] = [name |-> Medications[1].Name, status |-> "deleted"]
  /\ msgs[2] = [name |-> Medications[1].Name, status |-> "live"]
  /\ \E i \in DOMAIN rows : rows[i].acknowledged = 0 /\ rows[i].message_id = 2

\* C19: a pass that finds a due medication with no notification recorded
\* today (no record, so that it creates one) requests no delete and sends one
\* notification; when it has written the record there is exactly one record
\* of (today, medication), not acknowledged, whose reference is the reference
\* the send returned: the last message of the channel, live.
C19_FirstReminderOfTheDay ==
  [][/\ (spc = "got" /\ sRem.MessageID = NoMessage /\ spc' # spc /\ ~sRem.Acknowledged)
          => (spc' = "send" /\ msgs' = msgs /\ sDeleted' = NoMessage)
     /\ (spc = "send" /\ spc' = "update") => Len(msgs') = Len(msgs) + 1
     /\ (spc = "update" /\ spc' = "check" /\ sRem.MessageID = NoMessage)
          => LET name == Medications[sIdx].Name
             IN /\ sDeleted = NoMessage
                /\ msgs' = msgs
                /\ sNew = Len(msgs)
                /\ msgs[sNew] = [name |-> name, status |-> "live"]
                /\ Cardinality(Matching(rows', sToday, name)) = 1
                /\ \A i \in Matching(rows', sToday, name) :
                     /\ rows'[i].id = sRem.ID
                     /\ rows'[i].acknowledged = 0
                     /\ rows'[i].message_id = sNew]_vars

\* the startup pass on an empty table has created the record of the first
\* medication, sent its first notification and written the reference
C19_Witness ==
  /\ spc = "check"
  /\ sIdx = 2
  /\ Len(rows) = 1
  /\ rows[1].medication_type = Medications[1].Name
  /\ rows[1].acknowledged = 0
  /\ rows[1].message_id = 1
  /\ msgs = <<[name |-> Medications[1].Name, status |-> "live"]>>

\* C20: a pass that reads an unacknowledged record of a due medication with
\* the reference r requests the delete of r, and of no other message, before
\* it sends; when it has written the record the stored reference is the one
\* the send returned, not r.
C20_DeleteThenSend ==
  /\ []((spc \in {"send", "update"} /\ sRem.MessageID # NoMessage)
          => sDeleted = sRem.MessageID)
  /\ [][/\ (spc = "got" /\ ~sRem.Acknowledged /\ sRem.MessageID # NoMessage
                /\ spc' # spc)
             => /\ spc' = "send"
                /\ sDeleted' = sRem.MessageID
                /\ \/ msgs' = msgs
                   \/ msgs' = [msgs EXCEPT ![sRem.MessageID].status = "deleted"]
        /\ (spc = "update" /\ spc' = "check" /\ sRem.MessageID # NoMessage)
             => /\ sNew # sRem.MessageID
                /\ msgs[sNew].status = "live"
                /\ \A i \in DOMAIN rows' :
                     rows'[i].id = sRem.ID
                       => (rows'[i].message_id = sNew /\ rows'[i].acknowledged = 0)]_vars

\* the second pass of a day has deleted notification 1, sent notification 2
\* and written it to the record, and goes on with the next medication
C20_Witness ==
  /\ spc = "check"
  /\ sIdx = 2
  /\ Len(msgs) = 2
  /\ msgs[1].status = "deleted"
  /\ msgs[2].status = "live"
  /\ Len(rows) = 1
  /\ rows[1].message_id = 2

\* C21: a send that fails ends the pass there: the loop is back in its
\* select with the later medications not visited, the record is as it was
\* before the send, and between passes the loop touches neither the table
\* nor the channel.
C21_SendFailureAbortsPass ==
  [][/\ (spc = "send" /\ spc' # spc /\ msgs' = msgs)
          => (spc' = "select" /\ sIdx' = 0 /\ rows' = rows)
     /\ (spc = "select") => (rows' = rows /\ msgs' = msgs)]_vars

\* the startup pass has created the record of the first medication, its send
\* has failed and the pass is over: no notification, no reference, and the
\* second medication was not visited
C21_Witness ==
  /\ spc = "select"
  /\ msgs = <<>>
  /\ Len(rows) = 1
  /\ rows[1].acknowledged = 0
  /\ rows[1].message_id = NULL
  /\ Len(Medications) > 1

\* the delete of the reference the pass has requested did not remove the
\* message
DeleteFailed == sDeleted # NoMessage /\ msgs[sDeleted].status # "deleted"

\* C22: a delete that fails does not end the pass: the pass goes on to the
\* send, a send that succeeds adds the new notification, the update writes
\* its reference to the record and the pass moves to the next medication.
C22_DeleteFailureIsNotFatal ==
  [][/\ (spc = "got" /\ ~sRem.Acknowledged /\ sRem.MessageID # NoMessage
            /\ spc' # spc)
          => spc' = "send"
     /\ (spc = "send" /\ DeleteFailed /\ spc' = "update")
          => (Len(msgs') = Len(msgs) + 1 /\ sNew' = Len(msgs'))
     /\ (spc = "update" /\ DeleteFailed /\ spc' # spc /\ rows' # rows)
          => /\ spc' = "check"
             /\ sIdx' = sIdx + 1
             /\ \E i \in DOMAIN rows' :
                  rows'[i].id = sRem.ID /\ rows'[i].message_id = sNew]_vars

\* the delete of notification 1 has failed, notification 2 was sent and is
\* the reference of the record, and the pass is at the next medication
C22_Witness ==
  /\ spc = "check"
  /\ sIdx = 2
  /\ Len(msgs) = 2
  /\ msgs[1].status = "live"
  /\ msgs[2].status = "live"
  /\ \E i \in DOMAIN rows : rows[i].acknowledged = 0 /\ rows[i].message_id = 2

\* a pass is in flight: the loop goroutine is inside checkAndSendReminders
InFlight == spc \in {"check", "today", "query", "insert", "got", "send", "update"}

\* C23: whatever way a pass ends, with an error or without, the loop is back
\* in its select; the loop ends only from the select and only on the stop
\* signal or the cancelled context; and in the select a pending tick can
\* always be received, which begins the next pass.
C23_ErrorPassKeepsLoop ==
  /\ [][(InFlight /\ ~InFlight') => spc' = "select"]_vars
  /\ [][(spc' = "exited" /\ spc # "exited")
          => (spc = "select" /\ (stopCh \/ ctxDone))]_vars
  /\ []((spc = "select" /\ tickPending) => ENABLED LoopTick)

\* an earlier pass has sent notification 1 and ended in the error of its
\* update (the record has no reference); the loop was neither stopped nor
\* cancelled and has begun a further pass
C23_Witness ==
  /\ spc = "check"
  /\ sIdx = 1
  /\ ~stopCh
  /\ ~ctxDone
  /\ Len(msgs) = 1
  /\ Len(rows) = 1
  /\ rows[1].message_id = NULL

\* C24: a store call of the pass either has its effect or ends the pass:
\* after the SELECT the pass has the record, goes on to the INSERT, or is
\* over; after the INSERT it has the new record or is over; after the update
\* the record carries the new reference and the pass is at the next
\* medication, or the pass is over.  A pass that is over has changed nothing
\* in that step and is back in the select with no medication left to visit.
C24_StoreFailureAbortsPass ==
  [][LET Aborted == /\ spc' = "select"
                    /\ sIdx' = 0
                    /\ rows' = rows
                    /\ msgs' = msgs
     IN /\ (spc = "query" /\ spc' # spc)
             => \/ spc' = "got" /\ sRem'.ID # 0 /\ sIdx' = sIdx
                \/ spc' = "insert" /\ sIdx' = sIdx
                \/ Aborted
        /\ (spc = "insert" /\ spc' # spc)
             => \/ /\ spc' = "got"
                   /\ sIdx' = sIdx
                   /\ Len(rows') = Len(rows) + 1
                   /\ sRem'.ID = rows'[Len(rows')].id
                \/ Aborted
        /\ (spc = "update" /\ spc' # spc)
             => \/ /\ spc' = "check"
                   /\ sIdx' = sIdx + 1
                   /\ \E i \in DOMAIN rows' :
                        rows'[i].id = sRem.ID /\ rows'[i].message_id = sNew
                \/ Aborted]_vars

\* the send of the startup pass has succeeded and its update has failed: the
\* pass is over, notification 1 is in the channel and the record has no
\* reference
C24_Witness ==
  /\ spc = "select"
  /\ Len(msgs) = 1
  /\ msgs[1].status = "live"
  /\ Len(rows) = 1
  /\ rows[1].acknowledged = 0
  /\ rows[1].message_id = NULL

\* the medication is due at no time the clock of the model reaches
NeverDue(medication) ==
  \A t \in 0..MaxNow : ~shouldSendReminder(medication, t, CfgOff)

\* C25: the step of a pass at a medication that is not due moves to the next
\* medication and changes neither the table nor the channel; with the
\* scheduler alone, a medication that is never due never has a record or a
\* notification.
C25_NotDueIsUntouched ==
  /\ [][(/\ spc = "check"
          /\ sIdx <= Len(Medications)
          /\ ~shouldSendReminder(Medications[sIdx], now, CfgOff)
          /\ <<spc, sIdx>>' # <<spc, sIdx>>)
          => /\ spc' = "check"
             /\ sIdx' = sIdx + 1
             /\ rows' = rows
             /\ msgs' = msgs]_vars
  /\ [](\A k \in DOMAIN Medications :
          NeverDue(Medications[k])
            => /\ \A i \in DOMAIN rows :
                    rows[i].medication_type # Medications[k].Name
               /\ \A m \in DOMAIN msgs : msgs[m].name # Medications[k].Name)

\* the pass has sent the notification of the first medication and has passed
\* the weekly medication, at its hour on a day that is not its day: one
\* record, one notification
C25_Witness ==
  /\ spc = "check"
  /\ sIdx = Len(Medications) + 1
  /\ LocalHour(now, CfgOff) = Medications[2].Hour
  /\ NeverDue(Medications[2])
  /\ Len(rows) = 1
  /\ Len(msgs) = 1

\* C26: the step of a pass at a record that is acknowledged moves to the next
\* medication; it deletes nothing, sends nothing and leaves the table as it
\* is.
C26_AcknowledgedIsSkipped ==
  [][(spc = "got" /\ sRem.Acknowledged /\ spc' # spc)
       => /\ spc' = "check"
          /\ sIdx' = sIdx + 1
          /\ sDeleted' = NoMessage
          /\ sNew' = NoMessage
          /\ rows' = rows
          /\ msgs' = msgs]_vars

\* the pass after a restart has found the acknowledged record of the first
\* medication and is at the second: the record and the finalized notification
\* are as they were
C26_Witness ==
  /\ spc = "check"
  /\ sIdx = 2
  /\ Len(rows) = 1
  /\ rows[1].acknowledged = 1
  /\ rows[1].message_id = 1
  /\ msgs = <<[name |-> Medications[1].Name, status |-> "final"]>>

\* C27: the handler at an unacknowledged record either writes the record
\* (acknowledged, with the reference of the message clicked) and only then
\* goes on to the edit, or answers with the error and leaves the record as it
\* is; neither step touches the channel.  A message is finalized only by the
\* edit step, and it is the message clicked.  The edit step, whether the edit
\* succeeds or not, leaves the table as it is and answers with the
\* confirmation.
C27_UpdateBeforeFinalize ==
  [][/\ (hpc = "got" /\ ~hRem.Acknowledged /\ hpc' # hpc)
          => /\ msgs' = msgs
             /\ \/ /\ hpc' = "edit"
                   /\ \E i \in DOMAIN rows' : rows'[i].id = hRem.ID
                   /\ \A i \in DOMAIN rows' :
                        rows'[i].id = hRem.ID
                          => rows'[i].acknowledged = 1 /\ rows'[i].message_id = hMsg
                \/ /\ hpc' = "responded"
                   /\ hOutcome' = "error"
                   /\ rows' = rows
     /\ \A m \in DOMAIN msgs :
          (msgs'[m].status = "final" /\ msgs[m].status # "final")
            => (hpc = "edit" /\ m = hMsg)
     /\ (hpc = "edit" /\ hpc' # hpc)
          => /\ hpc' = "responded"
             /\ hOutcome' = "confirmed"
             /\ rows' = rows]_vars

\* the update has succeeded and the edit has failed: the handler has answered
\* with the confirmation, the record is acknowledged with the reference of
\* the message clicked, and that message still has its button
C27_Witness ==
  /\ hpc = "responded"
  /\ hOutcome = "confirmed"
  /\ msgs[hMsg].status = "live"
  /\ \E i \in DOMAIN rows :
       rows[i].id = hRem.ID /\ rows[i].acknowledged = 1 /\ rows[i].message_id = hMsg

\* C28: once the stop channel is closed, no pass begins: the loop does not
\* leave its select for a pass, also not with a tick pending.
C28_NoPassAfterStop ==
  [][stopCh => ~(spc = "select" /\ spc' = "check")]_vars

\* C29: while a pass is in flight, every step of the loop either continues
\* that pass (the position in the medication list never goes back) or ends
\* it; a tick that arrives during the pass is only buffered and changes
\* nothing of the pass.
C29_PassesDoNotOverlap ==
  [][InFlight
       => \/ spc' = "select"
          \/ /\ InFlight'
             /\ sIdx' >= sIdx
             /\ (tickPending' # tickPending)
                  => UNCHANGED <<spc, sIdx, sToday, sRem, sNew, sDeleted, worldVars>>]_vars

\* the ticker has fired while the pass is between the insert of the record
\* and its send
C29_Witness ==
  /\ spc = "send"
  /\ tickPending
  /\ sIdx = 1
  /\ ~stopCh
  /\ ~ctxDone

\* ------------------------------------------------ clicks between two passes
\* the startup pass at hour 25 has created the record of the first
\* medication, sent its notification and stored the reference; the loop waits
\* in its select and the handler is registered
SentBefore(off) ==
  [rows |-> UpdateRows(InsertReminder(<<>>, Today(25, off), Medications[1].Name),
                       1, FALSE, 1, Timestamp(25, off)),
   msgs |-> DiscordSend(<<>>, Medications[1].Name)]

InitClicks ==
  /\ now = 25
  /\ locOff \in LocOffsets
  /\ rows = SentBefore(locOff).rows
  /\ msgs = SentBefore(locOff).msgs
  /\ registered = TRUE
  /\ spc = "select"
  /\ sIdx = 0
  /\ sToday = 0
  /\ sRem = NoReminder
  /\ sNew = NoMessage
  /\ sDeleted = NoMessage
  /\ sPassConf = NoConfirmations
  /\ tickPending = FALSE
  /\ stopCh = FALSE
  /\ ctxDone = FALSE
  /\ stopPc = [c \in Callers |-> "none"]
  /\ once = "fresh"
  /\ closes = 0
  /\ hung = FALSE
  /\ hpc = "idle"
  /\ hName = ""
  /\ hMsg = NoMessage
  /\ hToday = 0
  /\ hRem = NoReminder
  /\ hOutcome = "none"
  /\ hWait = NoMessage
  /\ confirmed = NoConfirmations
  /\ due = NoDue
  /\ tLast = NoCall
  /\ tCount = 0

\* the user clicks, also while a handler runs; no pass runs
NextClicks ==
  \/ ClockAdvance
  \/ \E m \in 1..MaxMsgs : Click(m)
  \/ \E m \in 1..MaxMsgs : ClickWaits(m)
  \/ ClickRuns
  \/ HQuery
  \/ HInsert
  \/ HAlready
  \/ HUpdate
  \/ HEdit
  \/ HReturn

SpecClicks == InitClicks /\ [][NextClicks]_vars

\* C30: a handler in flight keeps its interaction until it returns; the
\* interaction blocked on the mutex begins only when no handler runs.  With
\* no pass between the clicks, a handler that finds the record of a name and
\* day for which a confirmation was given answers "already acknowledged" and
\* leaves the table as it is, and a confirmation is given only for a name
\* and day that have none yet.
C30_ClicksAreSerialized ==
  /\ [][(hpc # "idle")
          => (hpc' = "idle" \/ UNCHANGED <<hName, hMsg, hToday>>)]_vars
  /\ [][(hWait # NoMessage /\ hWait' = NoMessage)
          => (hpc = "idle" /\ hpc' = "query" /\ hMsg' = hWait)]_vars
  /\ [][(hpc = "got" /\ hpc' # hpc /\ confirmed[hName].ldate = hToday)
          => /\ hpc' = "responded"
             /\ hOutcome' = "already"
             /\ rows' = rows]_vars
  /\ [][(confirmed' # confirmed) => confirmed[hName].ldate # hToday]_vars

\* two clicks on the same notification: the first was confirmed and has
\* finalized the message, the second has waited for the mutex and has got
\* "already acknowledged"
C30_Witness ==
  /\ hpc = "responded"
  /\ hOutcome = "already"
  /\ msgs[hMsg].status = "final"
  /\ confirmed[hName].ldate = hToday
  /\ Len(rows) = 1
  /\ rows[1].acknowledged = 1

\* the notifications of a medication that still have their button: sent and
\* neither deleted nor finalized
Actionable(name) ==
  {m \in DOMAIN msgs : msgs[m].name = name /\ msgs[m].status = "live"}

\* every notification that still has its button is the stored reference of a
\* record: no delete has failed and left a superseded notification, and no
\* update has failed and left a notification without a record
AllReferenced ==
  \A m \in DOMAIN msgs :
    msgs[m].status = "live" => \E i \in DOMAIN rows : rows[i].message_id = m

\* C31: between passes, with no handler running, the process in the
\* configured zone and no notification left behind by a failed delete or a
\* failed update, every medication has at most one notification that still
\* has its button.
C31_OneActionablePerEvent ==
  (spc = "select" /\ hpc = "idle" /\ locOff = CfgOff /\ AllReferenced)
    => \A n \in MedNames : Cardinality(Actionable(n)) <= 1

\* C32: when the handler marks a record acknowledged, the message clicked
\* is the reference that record has in the table at that moment (stated for
\* the process in the configured zone, with no notification left behind by
\* a failed delete or a failed update, a record that has a reference and a
\* clicked message that still has its button).
C32_AcknowledgesClickedRecord ==
  [][(/\ hpc = "got"
      /\ hpc' = "edit"
      /\ locOff = CfgOff
      /\ AllReferenced
      /\ msgs[hMsg].status = "live")
       => \A i \in DOMAIN rows :
            (rows[i].id = hRem.ID /\ rows[i].message_id # NULL)
              => rows[i].message_id = hMsg]_vars

====
